---------------------------- MODULE Spec2Model ----------------------------
(***************************************************************************)
(* Young-wealth admin backend: the in-memory user store                    *)
(* (server/models/User.js) and the admin routes (server/routes/admin.js).  *)
(*                                                                         *)
(* JavaScript strings are sequences of one-character strings, so that      *)
(* trim(), toLowerCase(), parseInt() and parseFloat() are computed.        *)
(* A request field is a JavaScript value: undefined, a string or a number. *)
(* server/models/Course.js is not among the sources; the CourseModel_*     *)
(* operators follow the specification's sections 3, 4.1 and 4.3.           *)
(***************************************************************************)
EXTENDS Integers, Sequences, FiniteSets, TLC

VARIABLES
    users,      \* User.js `users`: the array of user records
    courses,    \* the course store: the array of course records
    pending,    \* UserModel.create calls suspended at `await bcrypt.hash`
    logins,     \* POST /login requests suspended at `await validatePassword`
    resp,       \* the result of the operation that completed last
    now,        \* the clock `new Date()` reads
    uuids       \* how many identifiers uuidv4() has handed out

vars == <<users, courses, pending, logins, resp, now, uuids>>

----------------------------------------------------------------------------
(* Bounds of the model *)

MaxUuid == 3
MaxClock == 1
MaxPending == 2
MaxLogins == 1

----------------------------------------------------------------------------
(* JavaScript values and strings *)

Undef == [t |-> "undefined", s |-> <<>>, n |-> 0]
Str(s) == [t |-> "string", s |-> s, n |-> 0]
Num(n) == [t |-> "number", s |-> <<>>, n |-> n]

\* the value `null`, and the `undefined` a lookup that found nothing returns
Null == [null |-> TRUE]

\* a field a constructor argument did not carry
Undefined == "undefined"

Whitespace == {" ", "\t", "\n"}
Digits == <<"0", "1", "2", "3", "4", "5", "6", "7", "8", "9">>

UpperToLower ==
    [A |-> "a", B |-> "b", C |-> "c", D |-> "d", E |-> "e", F |-> "f",
     G |-> "g", H |-> "h", I |-> "i", J |-> "j", K |-> "k", L |-> "l",
     M |-> "m", N |-> "n", O |-> "o", P |-> "p", Q |-> "q", R |-> "r",
     S |-> "s", T |-> "t", U |-> "u", V |-> "v", W |-> "w", X |-> "x",
     Y |-> "y", Z |-> "z"]

ToLowerCase(s) ==
    [i \in 1..Len(s) |->
        IF s[i] \in DOMAIN UpperToLower THEN UpperToLower[s[i]] ELSE s[i]]

RECURSIVE TrimStart(_)
TrimStart(s) ==
    IF s # <<>> /\ Head(s) \in Whitespace THEN TrimStart(Tail(s)) ELSE s

RECURSIVE TrimEnd(_)
TrimEnd(s) ==
    IF s # <<>> /\ s[Len(s)] \in Whitespace
    THEN TrimEnd(SubSeq(s, 1, Len(s) - 1))
    ELSE s

Trim(s) == TrimEnd(TrimStart(s))

\* !v is false
Truthy(v) ==
    CASE v.t = "undefined" -> FALSE
      [] v.t = "string" -> v.s # <<>>
      [] v.t = "number" -> v.n # 0

Merge(a, b) ==
    [f \in DOMAIN a \cup DOMAIN b |-> IF f \in DOMAIN b THEN b[f] ELSE a[f]]

Without(r, f) == [g \in DOMAIN r \ {f} |-> r[g]]

Get(r, f, default) == IF f \in DOMAIN r THEN r[f] ELSE default

Min(S) == CHOOSE m \in S : \A k \in S : m <= k

\* Array.prototype.findIndex, 1-based; 0 when no element matches
FirstOf(S) == IF S = {} THEN 0 ELSE Min(S)

RemoveAt(seq, i) == SubSeq(seq, 1, i - 1) \o SubSeq(seq, i + 1, Len(seq))

NoErrors == [f \in {} |-> ""]

----------------------------------------------------------------------------
(* bcryptjs: a hash is a one-way wrapper of the plaintext, and compare    *)
(* accepts a candidate exactly when the hash wraps it.                     *)

Hash(plain) == [bcrypt |-> plain]

Compare(plain, hashed) == hashed = Hash(plain)

\* the plaintext the seeded hash '$2a$10$92IX...' verifies
SeedPlain == <<"s", "e", "e", "d">>
SeedHash == Hash(SeedPlain)

----------------------------------------------------------------------------
(* server/models/User.js *)

JohnEmail ==
    <<"j", "o", "h", "n", "@", "s", "t", "u", "d", "e", "n", "t", ".",
      "c", "o", "m">>
JaneEmail ==
    <<"j", "a", "n", "e", "@", "c", "o", "l", "l", "e", "g", "e", ".",
      "c", "o", "m">>
AdminEmail ==
    <<"a", "d", "m", "i", "n", "@", "y", "o", "u", "n", "g", "w", "e",
      "a", "l", "t", "h", ".", "c", "o", "m">>

Uuid(k) == "uuid-" \o ToString(k)

\* new User(data), with the identifier uuidv4() would give and the time
User(data, uuid, t) ==
    [id |-> Get(data, "id", uuid),
     fullName |-> Get(data, "fullName", Undefined),
     email |-> Get(data, "email", Undefined),
     password |-> Get(data, "password", Undefined),
     role |-> Get(data, "role", Undefined),
     schoolType |-> Get(data, "schoolType", Undefined),
     isActive |-> Get(data, "isActive", TRUE),
     createdAt |-> Get(data, "createdAt", t),
     updatedAt |-> t]

SeedUsers ==
    << User([id |-> "1", fullName |-> "John Doe", email |-> JohnEmail,
             password |-> SeedHash, role |-> "school-student",
             schoolType |-> "government"], "", 0),
       User([id |-> "2", fullName |-> "Jane Smith", email |-> JaneEmail,
             password |-> SeedHash, role |-> "college-student"], "", 0),
       User([id |-> "admin", fullName |-> "Admin User", email |-> AdminEmail,
             password |-> SeedHash, role |-> "admin"], "", 0) >>

\* as UserModel_getAll, listing the soft-deleted users too
UserModel_getAll_unfiltered(us) == us

UserModel_getAll(us) == SelectSeq(us, LAMBDA u : u.isActive)

\* as UserModel_getByEmail, finding soft-deleted users too
UserModel_getByEmail_inactive(us, email) ==
    FirstOf({i \in 1..Len(us) : us[i].email = email})

\* the index of the user found, 0 for undefined
UserModel_getByEmail(us, email) ==
    FirstOf({i \in 1..Len(us) : us[i].email = email /\ us[i].isActive})

\* as UserModel_create_existing, looking among the active users only
UserModel_create_existing_active(us, userData) ==
    FirstOf({i \in 1..Len(us) :
                us[i].email = userData.email /\ us[i].isActive})

\* create, to its await: `existingUser`, 0 for undefined
UserModel_create_existing(us, userData) ==
    FirstOf({i \in 1..Len(us) : us[i].email = userData.email})

\* create, from its await on: the store after users.push(user)
UserModel_create_push(us, userData, uuid, t) ==
    Append(us,
           User(Merge(userData, [password |-> Hash(userData.password)]),
                uuid, t))

\* as UserModel_update, storing the update of an unknown id as a record
UserModel_update_upsert(us, id, updateData, t) ==
    LET index == FirstOf({i \in 1..Len(us) : us[i].id = id})
        merged(u) == Merge(Merge(u, updateData), [updatedAt |-> t])
    IN  IF index # 0
        THEN [users |-> [us EXCEPT ![index] = merged(us[index])],
              ret |-> merged(us[index])]
        ELSE [users |-> Append(us, merged([id |-> id])), ret |-> Null]

UserModel_update(us, id, updateData, t) ==
    LET index == FirstOf({i \in 1..Len(us) : us[i].id = id})
        merged == Merge(Merge(us[index], updateData), [updatedAt |-> t])
    IN  IF index # 0
        THEN [users |-> [us EXCEPT ![index] = merged], ret |-> merged]
        ELSE [users |-> us, ret |-> Null]

UserModel_delete(us, id, t) ==
    LET index == FirstOf({i \in 1..Len(us) : us[i].id = id})
        gone == [us[index] EXCEPT !.isActive = FALSE, !.updatedAt = t]
    IN  IF index # 0
        THEN [users |-> [us EXCEPT ![index] = gone], ret |-> gone]
        ELSE [users |-> us, ret |-> Null]

UserModel_validatePassword(plainPassword, hashedPassword) ==
    Compare(plainPassword, hashedPassword)


----------------------------------------------------------------------------
(* parseInt and parseFloat.  The numerals of this model carry no fraction, *)
(* exponent or radix prefix, so both read an optional sign and the longest *)
(* run of decimal digits after leading white space; NaN without a digit.   *)

NaN == [nan |-> TRUE, v |-> 0]
Number(k) == [nan |-> FALSE, v |-> k]

IsDigit(c) == \E i \in 1..10 : Digits[i] = c
DigitVal(c) == (CHOOSE i \in 1..10 : Digits[i] = c) - 1

RECURSIVE DigitsValue(_, _)
DigitsValue(s, acc) ==
    IF s # <<>> /\ IsDigit(Head(s))
    THEN DigitsValue(Tail(s), 10 * acc + DigitVal(Head(s)))
    ELSE acc

ParseNumeral(s) ==
    LET t == TrimStart(s)
        signed == t # <<>> /\ Head(t) \in {"-", "+"}
        body == IF signed THEN Tail(t) ELSE t
        magnitude == DigitsValue(body, 0)
    IN  IF body = <<>> \/ ~IsDigit(Head(body))
        THEN NaN
        ELSE Number(IF signed /\ Head(t) = "-" THEN 0 - magnitude
                    ELSE magnitude)

ParseValue(v) ==
    CASE v.t = "undefined" -> NaN
      [] v.t = "number" -> Number(v.n)
      [] v.t = "string" -> ParseNumeral(v.s)

parseInt(v) == ParseValue(v)

parseFloat(v) == ParseValue(v)

\* parseX(v) || 0
OrZero(p) == IF p.nan THEN 0 ELSE p.v

----------------------------------------------------------------------------
(* server/models/Course.js, after the specification *)

Course(data, uuid, t) ==
    [id |-> uuid,
     title |-> data.title,
     description |-> data.description,
     category |-> data.category,
     level |-> data.level,
     price |-> data.price,
     duration |-> data.duration,
     thumbnail |-> data.thumbnail,
     isActive |-> TRUE,
     videos |-> <<>>,
     createdAt |-> t,
     updatedAt |-> t]

Video(data, uuid, t) ==
    [id |-> uuid,
     title |-> data.title,
     description |-> data.description,
     videoUrl |-> data.videoUrl,
     duration |-> data.duration,
     createdAt |-> t,
     updatedAt |-> t]

CourseIndex(cs, id) == FirstOf({i \in 1..Len(cs) : cs[i].id = id})

VideoIndex(vs, id) == FirstOf({i \in 1..Len(vs) : vs[i].id = id})

CourseModel_getAll(cs) == cs

CourseModel_create(cs, courseData, uuid, t) ==
    LET course == Course(courseData, uuid, t)
    IN  [courses |-> Append(cs, course), ret |-> course]

CourseModel_update(cs, id, updateData, t) ==
    LET index == CourseIndex(cs, id)
        merged == Merge(Merge(cs[index], updateData), [updatedAt |-> t])
    IN  IF index # 0
        THEN [courses |-> [cs EXCEPT ![index] = merged], ret |-> merged]
        ELSE [courses |-> cs, ret |-> Null]

CourseModel_delete(cs, id) ==
    LET index == CourseIndex(cs, id)
    IN  IF index # 0
        THEN [courses |-> RemoveAt(cs, index), ret |-> cs[index]]
        ELSE [courses |-> cs, ret |-> Null]

CourseModel_addVideo(cs, courseId, videoData, uuid, t) ==
    LET index == CourseIndex(cs, courseId)
        video == Video(videoData, uuid, t)
    IN  IF index # 0
        THEN [courses |->
                 [cs EXCEPT ![index].videos = Append(@, video)],
              ret |-> video]
        ELSE [courses |-> cs, ret |-> Null]

CourseModel_updateVideo(cs, courseId, videoId, updateData, t) ==
    LET index == CourseIndex(cs, courseId)
        vindex == IF index = 0 THEN 0 ELSE VideoIndex(cs[index].videos, videoId)
        merged == Merge(Merge(cs[index].videos[vindex], updateData),
                        [updatedAt |-> t])
    IN  IF vindex # 0
        THEN [courses |-> [cs EXCEPT ![index].videos[vindex] = merged],
              ret |-> merged]
        ELSE [courses |-> cs, ret |-> Null]

CourseModel_deleteVideo(cs, courseId, videoId) ==
    LET index == CourseIndex(cs, courseId)
        vindex == IF index = 0 THEN 0 ELSE VideoIndex(cs[index].videos, videoId)
    IN  IF vindex # 0
        THEN [courses |->
                 [cs EXCEPT ![index].videos = RemoveAt(@, vindex)],
              ret |-> cs[index].videos[vindex]]
        ELSE [courses |-> cs, ret |-> Null]

----------------------------------------------------------------------------
(* server/routes/admin.js *)

S_school == <<"s", "c", "h", "o", "o", "l">>
S_college == <<"c", "o", "l", "l", "e", "g", "e">>
S_employee == <<"e", "m", "p", "l", "o", "y", "e", "e">>
S_beginner == <<"b", "e", "g", "i", "n", "n", "e", "r">>
S_intermediate == <<"i", "n", "t", "e", "r", "m", "e", "d", "i", "a", "t", "e">>
S_advanced == <<"a", "d", "v", "a", "n", "c", "e", "d">>
S_true == <<"t", "r", "u", "e">>

Categories == {S_school, S_college, S_employee}
Levels == {S_beginner, S_intermediate, S_advanced}

\* ['a', 'b'].includes(v): strict equality with one of the strings
Includes(set, v) == v.t = "string" /\ v.s \in set

\* isNaN(parse(v)) || parse(v) < 0, and ... <= 0
NotNonNegative(p) == p.nan \/ p.v < 0
NotPositive(p) == p.nan \/ p.v <= 0

\* an object literal built by `if (cond) errors.f = msg` statements
Fields(pairs) ==
    LET names == {pr[1] : pr \in {q \in pairs : q[3]}}
    IN  [f \in names |-> (CHOOSE pr \in pairs : pr[1] = f)[2]]

NullPath == "null"

Resp(op, status, req, errors, data) ==
    [op |-> op, status |-> status, req |-> req, errors |-> errors,
     data |-> data]

\* as PostCourse_errors, measuring the title before trimming it
PostCourse_errors_untrimmed(body) ==
    Fields({
      <<"title", "Title must be at least 3 characters long",
        ~Truthy(body.title) \/ Len(body.title.s) < 3>>,
      <<"description", "Description must be at least 10 characters long",
        ~Truthy(body.description) \/ Len(Trim(body.description.s)) < 10>>,
      <<"category", "Invalid category", ~Includes(Categories, body.category)>>,
      <<"level", "Invalid level", ~Includes(Levels, body.level)>>,
      <<"price", "Price must be a valid number",
        NotNonNegative(parseFloat(body.price))>>,
      <<"duration", "Duration must be a positive number",
        NotPositive(parseInt(body.duration))>> })

\* lines 130-154
PostCourse_errors(body) ==
    Fields({
      <<"title", "Title must be at least 3 characters long",
        ~Truthy(body.title) \/ Len(Trim(body.title.s)) < 3>>,
      <<"description", "Description must be at least 10 characters long",
        ~Truthy(body.description) \/ Len(Trim(body.description.s)) < 10>>,
      <<"category", "Invalid category", ~Includes(Categories, body.category)>>,
      <<"level", "Invalid level", ~Includes(Levels, body.level)>>,
      <<"price", "Price must be a valid number",
        NotNonNegative(parseFloat(body.price))>>,
      <<"duration", "Duration must be a positive number",
        NotPositive(parseInt(body.duration))>> })

\* lines 164-172
PostCourse_courseData(body, file) ==
    [title |-> Trim(body.title.s),
     description |-> Trim(body.description.s),
     category |-> body.category.s,
     level |-> body.level.s,
     price |-> OrZero(parseFloat(body.price)),
     duration |-> OrZero(parseInt(body.duration)),
     thumbnail |-> IF file # Null
                   THEN "/uploads/thumbnails/" \o file.filename
                   ELSE NullPath]

\* router.post('/courses')
PostCourse(cs, body, file, uuid, t) ==
    LET errors == PostCourse_errors(body)
        req == [body |-> body, file |-> file]
        made == CourseModel_create(cs, PostCourse_courseData(body, file),
                                   uuid, t)
    IN  IF DOMAIN errors # {}
        THEN [courses |-> cs,
              resp |-> Resp("POST /courses", 400, req, errors, Null)]
        ELSE [courses |-> made.courses,
              resp |-> Resp("POST /courses", 201, req, NoErrors, made.ret)]

\* lines 195-219
PutCourse_errors(body) ==
    Fields({
      <<"title", "Title must be at least 3 characters long",
        Truthy(body.title) /\ Len(Trim(body.title.s)) < 3>>,
      <<"description", "Description must be at least 10 characters long",
        Truthy(body.description) /\ Len(Trim(body.description.s)) < 10>>,
      <<"category", "Invalid category",
        Truthy(body.category) /\ ~Includes(Categories, body.category)>>,
      <<"level", "Invalid level",
        Truthy(body.level) /\ ~Includes(Levels, body.level)>>,
      <<"price", "Price must be a valid number",
        Truthy(body.price) /\ NotNonNegative(parseFloat(body.price))>>,
      <<"duration", "Duration must be a positive number",
        Truthy(body.duration) /\ NotPositive(parseInt(body.duration))>> })

\* as PutCourse_updateData, writing the price whether or not one was sent
PutCourse_updateData_priceAlways(body, file) ==
    Fields({
      <<"title", Trim(body.title.s), Truthy(body.title)>>,
      <<"description", Trim(body.description.s), Truthy(body.description)>>,
      <<"category", body.category.s, Truthy(body.category)>>,
      <<"level", body.level.s, Truthy(body.level)>>,
      <<"price", OrZero(parseFloat(body.price)), TRUE>>,
      <<"duration", OrZero(parseInt(body.duration)), body.duration # Undef>>,
      <<"isActive", body.isActive = Str(S_true), body.isActive # Undef>>,
      <<"thumbnail",
        IF file # Null THEN "/uploads/thumbnails/" \o file.filename
        ELSE NullPath,
        file # Null>> })

\* as PutCourse_updateData, skipping a falsy price or duration
PutCourse_updateData_truthy(body, file) ==
    Fields({
      <<"title", Trim(body.title.s), Truthy(body.title)>>,
      <<"description", Trim(body.description.s), Truthy(body.description)>>,
      <<"category", body.category.s, Truthy(body.category)>>,
      <<"level", body.level.s, Truthy(body.level)>>,
      <<"price", OrZero(parseFloat(body.price)), Truthy(body.price)>>,
      <<"duration", OrZero(parseInt(body.duration)), Truthy(body.duration)>>,
      <<"isActive", body.isActive = Str(S_true), body.isActive # Undef>>,
      <<"thumbnail",
        IF file # Null THEN "/uploads/thumbnails/" \o file.filename
        ELSE NullPath,
        file # Null>> })

\* lines 229-240
PutCourse_updateData(body, file) ==
    Fields({
      <<"title", Trim(body.title.s), Truthy(body.title)>>,
      <<"description", Trim(body.description.s), Truthy(body.description)>>,
      <<"category", body.category.s, Truthy(body.category)>>,
      <<"level", body.level.s, Truthy(body.level)>>,
      <<"price", OrZero(parseFloat(body.price)), body.price # Undef>>,
      <<"duration", OrZero(parseInt(body.duration)), body.duration # Undef>>,
      <<"isActive", body.isActive = Str(S_true), body.isActive # Undef>>,
      <<"thumbnail",
        IF file # Null THEN "/uploads/thumbnails/" \o file.filename
        ELSE NullPath,
        file # Null>> })

\* router.put('/courses/:id')
PutCourse(cs, id, body, file, t) ==
    LET errors == PutCourse_errors(body)
        req == [id |-> id, body |-> body, file |-> file]
        done == CourseModel_update(cs, id, PutCourse_updateData(body, file), t)
    IN  IF DOMAIN errors # {}
        THEN [courses |-> cs,
              resp |-> Resp("PUT /courses/:id", 400, req, errors, Null)]
        ELSE IF done.ret = Null
        THEN [courses |-> done.courses,
              resp |-> Resp("PUT /courses/:id", 404, req, NoErrors, Null)]
        ELSE [courses |-> done.courses,
              resp |-> Resp("PUT /courses/:id", 200, req, NoErrors, done.ret)]

\* router.delete('/courses/:id')
DeleteCourse(cs, id) ==
    LET done == CourseModel_delete(cs, id)
        req == [id |-> id]
    IN  [courses |-> done.courses,
         resp |-> Resp("DELETE /courses/:id",
                       IF done.ret = Null THEN 404 ELSE 200,
                       req, NoErrors, Null)]

\* lines 295-311
PostVideo_errors(body, file) ==
    Fields({
      <<"title", "Video title must be at least 3 characters long",
        ~Truthy(body.title) \/ Len(Trim(body.title.s)) < 3>>,
      <<"description",
        "Video description must be at least 10 characters long",
        ~Truthy(body.description) \/ Len(Trim(body.description.s)) < 10>>,
      <<"duration", "Duration must be a positive number",
        NotPositive(parseInt(body.duration))>>,
      <<"video", "Video file is required", file = Null>> })

\* lines 321-326
PostVideo_videoData(body, file) ==
    [title |-> Trim(body.title.s),
     description |-> Trim(body.description.s),
     videoUrl |-> "/uploads/videos/" \o file.filename,
     duration |-> OrZero(parseInt(body.duration))]

\* router.post('/courses/:courseId/videos')
PostVideo(cs, courseId, body, file, uuid, t) ==
    LET errors == PostVideo_errors(body, file)
        req == [courseId |-> courseId, body |-> body, file |-> file]
        op == "POST /courses/:courseId/videos"
        done == CourseModel_addVideo(cs, courseId,
                                     PostVideo_videoData(body, file), uuid, t)
    IN  IF DOMAIN errors # {}
        THEN [courses |-> cs, resp |-> Resp(op, 400, req, errors, Null)]
        ELSE IF done.ret = Null
        THEN [courses |-> done.courses,
              resp |-> Resp(op, 404, req, NoErrors, Null)]
        ELSE [courses |-> done.courses,
              resp |-> Resp(op, 201, req, NoErrors, done.ret)]

\* lines 356-368
PutVideo_errors(body) ==
    Fields({
      <<"title", "Video title must be at least 3 characters long",
        Truthy(body.title) /\ Len(Trim(body.title.s)) < 3>>,
      <<"description",
        "Video description must be at least 10 characters long",
        Truthy(body.description) /\ Len(Trim(body.description.s)) < 10>>,
      <<"duration", "Duration must be a positive number",
        Truthy(body.duration) /\ NotPositive(parseInt(body.duration))>> })

\* lines 378-381
PutVideo_updateData(body) ==
    Fields({
      <<"title", Trim(body.title.s), Truthy(body.title)>>,
      <<"description", Trim(body.description.s), Truthy(body.description)>>,
      <<"duration", OrZero(parseInt(body.duration)), body.duration # Undef>> })

\* router.put('/courses/:courseId/videos/:videoId')
PutVideo(cs, courseId, videoId, body, t) ==
    LET errors == PutVideo_errors(body)
        req == [courseId |-> courseId, videoId |-> videoId, body |-> body]
        op == "PUT /courses/:courseId/videos/:videoId"
        done == CourseModel_updateVideo(cs, courseId, videoId,
                                        PutVideo_updateData(body), t)
    IN  IF DOMAIN errors # {}
        THEN [courses |-> cs, resp |-> Resp(op, 400, req, errors, Null)]
        ELSE IF done.ret = Null
        THEN [courses |-> done.courses,
              resp |-> Resp(op, 404, req, NoErrors, Null)]
        ELSE [courses |-> done.courses,
              resp |-> Resp(op, 200, req, NoErrors, done.ret)]

\* router.delete('/courses/:courseId/videos/:videoId')
DeleteVideo(cs, courseId, videoId) ==
    LET done == CourseModel_deleteVideo(cs, courseId, videoId)
        req == [courseId |-> courseId, videoId |-> videoId]
    IN  [courses |-> done.courses,
         resp |-> Resp("DELETE /courses/:courseId/videos/:videoId",
                       IF done.ret = Null THEN 404 ELSE 200,
                       req, NoErrors, Null)]

\* array.filter(test).length, `kept` telling of each element whether it passes
Count(kept) == Cardinality({i \in DOMAIN kept : kept[i]})

RECURSIVE SumVideos(_)
SumVideos(cs) ==
    IF cs = <<>> THEN 0 ELSE Len(Head(cs).videos) + SumVideos(Tail(cs))

\* router.get('/stats')
GetStats(cs, us) ==
    LET all == CourseModel_getAll(cs)
        listed == UserModel_getAll(us)
    IN  Resp("GET /stats", 200, Null, NoErrors,
             [totalCourses |-> Len(all),
              activeCourses |-> Count([i \in 1..Len(all) |-> all[i].isActive]),
              totalUsers |-> Count([i \in 1..Len(listed) |-> listed[i].role # "admin"]),
              schoolStudents |->
                  Count([i \in 1..Len(listed) |-> listed[i].role = "school-student"]),
              collegeStudents |->
                  Count([i \in 1..Len(listed) |-> listed[i].role = "college-student"]),
              employees |-> Count([i \in 1..Len(listed) |-> listed[i].role = "employee"]),
              totalVideos |-> SumVideos(all)])

\* as PostLogin_lookup, without the role test
PostLogin_lookup_anyRole(us, body) ==
    LET req == [body |-> body]
        index == UserModel_getByEmail(us, Trim(ToLowerCase(body.email.s)))
    IN  IF ~Truthy(body.email) \/ ~Truthy(body.password)
        THEN [sent |-> TRUE,
              resp |-> Resp("POST /login", 400, req, NoErrors, Null)]
        ELSE IF index = 0
        THEN [sent |-> TRUE,
              resp |-> Resp("POST /login", 401, req, NoErrors, Null)]
        ELSE [sent |-> FALSE, index |-> index]

\* POST /login to its await (lines 66-84): the response it sends at once,
\* or the user it found, whose hash it hands to validatePassword
PostLogin_lookup(us, body) ==
    LET req == [body |-> body]
        index == UserModel_getByEmail(us, Trim(ToLowerCase(body.email.s)))
    IN  IF ~Truthy(body.email) \/ ~Truthy(body.password)
        THEN [sent |-> TRUE,
              resp |-> Resp("POST /login", 400, req, NoErrors, Null)]
        ELSE IF index = 0 \/ us[index].role # "admin"
        THEN [sent |-> TRUE,
              resp |-> Resp("POST /login", 401, req, NoErrors, Null)]
        ELSE [sent |-> FALSE, index |-> index]

\* POST /login from its await on (lines 85-97); `user` is the object the
\* lookup returned, as it is by now
PostLogin_respond(body, user, isValidPassword) ==
    LET req == [body |-> body]
    IN  IF ~isValidPassword
        THEN Resp("POST /login", 401, req, NoErrors, Null)
        ELSE Resp("POST /login", 200, req, NoErrors,
                  Without(user, "password"))

----------------------------------------------------------------------------
(* The state machine.  An action is one synchronous run of a handler: a   *)
(* whole request, or the part of an async function before or after its     *)
(* await.  Each action takes the set its inputs are drawn from.            *)

NoResp == Resp("none", 0, Null, NoErrors, Null)

Init ==
    /\ users = SeedUsers
    /\ courses = <<>>
    /\ pending = <<>>
    /\ logins = <<>>
    /\ resp = NoResp
    /\ now = 0
    /\ uuids = 0

\* time passes between two runs
Tick ==
    /\ now < MaxClock
    /\ now' = now + 1
    /\ UNCHANGED <<users, courses, pending, logins, resp, uuids>>

\* UserModel.create is called and runs to `await bcrypt.hash`
CreateUserCall(Data) ==
    \E userData \in Data :
        /\ Len(pending) < MaxPending
        /\ uuids + Len(pending) < MaxUuid
        /\ IF UserModel_create_existing(users, userData) # 0
           THEN /\ resp' = Resp("UserModel.create", 0, userData,
                                [error |->
                                    "User with this email already exists"],
                                Null)
                /\ UNCHANGED pending
           ELSE /\ pending' = Append(pending, userData)
                /\ UNCHANGED resp
        /\ UNCHANGED <<users, courses, logins, now, uuids>>

\* a suspended UserModel.create resumes with the hash and returns
CreateUserResume ==
    \E k \in 1..Len(pending) :
        LET after == UserModel_create_push(users, pending[k],
                                           Uuid(uuids + 1), now)
        IN  /\ users' = after
            /\ pending' = RemoveAt(pending, k)
            /\ uuids' = uuids + 1
            /\ resp' = Resp("UserModel.create", 0, pending[k], NoErrors,
                            after[Len(after)])
            /\ UNCHANGED <<courses, logins, now>>

UserIndex(us, id) == FirstOf({i \in 1..Len(us) : us[i].id = id})

\* UserModel.update puts a new object at the index: a suspended login that
\* holds the old object no longer sees the store's
UpdateUser(Ids, Data) ==
    \E id \in Ids, updateData \in Data :
        LET done == UserModel_update(users, id, updateData, now)
            index == UserIndex(users, id)
        IN  /\ users' = done.users
            /\ logins' = [k \in 1..Len(logins) |->
                            IF logins[k].index = index
                            THEN [logins[k] EXCEPT !.live = FALSE]
                            ELSE logins[k]]
            /\ resp' = Resp("UserModel.update", 0,
                            [id |-> id, updateData |-> updateData],
                            NoErrors, done.ret)
            /\ UNCHANGED <<courses, pending, now, uuids>>

\* UserModel.delete writes into the stored object: a suspended login that
\* holds that object sees the write
DeleteUser(Ids) ==
    \E id \in Ids :
        LET done == UserModel_delete(users, id, now)
            index == UserIndex(users, id)
        IN  /\ users' = done.users
            /\ logins' = [k \in 1..Len(logins) |->
                            IF logins[k].index = index /\ logins[k].live
                            THEN [logins[k] EXCEPT !.user = done.ret]
                            ELSE logins[k]]
            /\ resp' = Resp("UserModel.delete", 0, [id |-> id], NoErrors,
                            done.ret)
            /\ UNCHANGED <<courses, pending, now, uuids>>

\* POST /login arrives and runs to `await UserModel.validatePassword`.
\* `lookup` (in a response and in a suspended login) is the store as the
\* lookup saw it: a history field, no part of the HTTP response.
LoginCall(Bodies) ==
    \E body \in Bodies :
        LET found == PostLogin_lookup(users, body)
        IN  /\ Len(logins) < MaxLogins
            /\ IF found.sent
               THEN /\ resp' = Merge(found.resp, [lookup |-> users])
                    /\ UNCHANGED logins
               ELSE /\ logins' = Append(logins,
                                   [body |-> body,
                                    index |-> found.index,
                                    user |-> users[found.index],
                                    live |-> TRUE,
                                    hash |-> users[found.index].password,
                                    lookup |-> users])
                    /\ UNCHANGED resp
            /\ UNCHANGED <<users, courses, pending, now, uuids>>

\* a suspended POST /login resumes with the result of bcrypt.compare
LoginResume ==
    \E k \in 1..Len(logins) :
        LET l == logins[k]
            isValidPassword ==
                UserModel_validatePassword(l.body.password.s, l.hash)
        IN  /\ resp' = Merge(PostLogin_respond(l.body, l.user,
                                               isValidPassword),
                             [lookup |-> l.lookup])
            /\ logins' = RemoveAt(logins, k)
            /\ UNCHANGED <<users, courses, pending, now, uuids>>

CreateCourse(Bodies, Files) ==
    \E body \in Bodies, file \in Files :
        LET r == PostCourse(courses, body, file, Uuid(uuids + 1), now)
        IN  /\ uuids < MaxUuid
            /\ courses' = r.courses
            /\ resp' = r.resp
            /\ uuids' = IF r.resp.status = 201 THEN uuids + 1 ELSE uuids
            /\ UNCHANGED <<users, pending, logins, now>>

UpdateCourse(Ids, Bodies, Files) ==
    \E id \in Ids, body \in Bodies, file \in Files :
        LET r == PutCourse(courses, id, body, file, now)
        IN  /\ courses' = r.courses
            /\ resp' = r.resp
            /\ UNCHANGED <<users, pending, logins, now, uuids>>

RemoveCourse(Ids) ==
    \E id \in Ids :
        LET r == DeleteCourse(courses, id)
        IN  /\ courses' = r.courses
            /\ resp' = r.resp
            /\ UNCHANGED <<users, pending, logins, now, uuids>>

AddVideo(Ids, Bodies, Files) ==
    \E courseId \in Ids, body \in Bodies, file \in Files :
        LET r == PostVideo(courses, courseId, body, file,
                           Uuid(uuids + 1), now)
        IN  /\ uuids < MaxUuid
            /\ courses' = r.courses
            /\ resp' = r.resp
            /\ uuids' = IF r.resp.status = 201 THEN uuids + 1 ELSE uuids
            /\ UNCHANGED <<users, pending, logins, now>>

UpdateVideo(Ids, VideoIds, Bodies) ==
    \E courseId \in Ids, videoId \in VideoIds, body \in Bodies :
        LET r == PutVideo(courses, courseId, videoId, body, now)
        IN  /\ courses' = r.courses
            /\ resp' = r.resp
            /\ UNCHANGED <<users, pending, logins, now, uuids>>

RemoveVideo(Ids, VideoIds) ==
    \E courseId \in Ids, videoId \in VideoIds :
        LET r == DeleteVideo(courses, courseId, videoId)
        IN  /\ courses' = r.courses
            /\ resp' = r.resp
            /\ UNCHANGED <<users, pending, logins, now, uuids>>

Stats ==
    /\ resp' = GetStats(courses, users)
    /\ UNCHANGED <<users, courses, pending, logins, now, uuids>>

----------------------------------------------------------------------------
(* Inputs *)

\* identifiers a request may name: the first uuids handed out (a course
\* first, then a video or a course), and one nobody has
SomeCourseIds == {Uuid(1), "no-such-id"}
SomeVideoIds == {Uuid(2), "no-such-id"}

T_Intro == <<"I", "n", "t", "r", "o">>
T_NewTitle == <<"N", "e", "w", " ", "T", "i", "t", "l", "e">>
T_padded_ab == <<" ", " ", "a", "b", " ">>
D_first == <<"A", " ", "f", "i", "r", "s", "t", " ", "c", "o", "u", "r", "s", "e">>
D_padded_short == <<" ", " ", "t", "o", "o", " ", "s", "h", "o", "r", "t", " ", " ">>
S_bogus == <<"b", "o", "g", "u", "s">>
N_0 == <<"0">>
N_10 == <<"1", "0">>
N_30 == <<"3", "0">>
N_minus5 == <<"-", "5">>
N_abc == <<"a", "b", "c">>
N_7x == <<"7", "x">>

NoFile == {Null}
Thumbnails == {Null, [filename |-> "thumbnail-1.png"]}
VideoFiles == {Null, [filename |-> "video-1.mp4"]}

\* every combination of missing, invalid and valid fields
AllCourseBodies ==
    [title : {Undef, Str(T_padded_ab), Str(T_Intro)},
     description : {Str(D_padded_short), Str(D_first)},
     category : {Str(S_bogus), Str(S_school)},
     level : {Undef, Str(S_beginner)},
     price : {Undef, Str(N_abc), Str(N_minus5), Str(N_0)},
     duration : {Undef, Str(N_abc), Str(N_0), Str(N_30)}]

AdminEmailRaw == <<" ", "A", "d", "m", "i", "n", "@", "Y", "o", "u", "n", "g", "W", "e", "a", "l", "t", "h", ".", "c", "o", "m", " ">>
UnknownEmail == <<"x", "@", "y", ".", "z">>
WrongPlain == <<"w", "r", "o", "n", "g">>

LoginBodies ==
    [email : {Undef, Str(AdminEmail), Str(AdminEmailRaw), Str(JaneEmail),
              Str(UnknownEmail)},
     password : {Undef, Str(<<>>), Str(SeedPlain), Str(WrongPlain)}]

RoleUpdates == {[role |-> "admin"], [role |-> "employee"]}
Reactivation == {[isActive |-> TRUE]}

----------------------------------------------------------------------------
(* Specifications *)

\* course creation alone, over every combination of fields
NextCreate == CreateCourse(AllCourseBodies, NoFile)

SpecCreate == Init /\ [][NextCreate]_vars

\* admin logins while users are updated and soft-deleted
NextLogin ==
    \/ LoginCall(LoginBodies)
    \/ LoginResume
    \/ DeleteUser({"admin", "no-such-id"})
    \/ UpdateUser({"admin"}, RoleUpdates \cup Reactivation)

SpecLogin == Init /\ [][NextLogin]_vars

\* user creations racing each other and soft deletes
NewEmail == <<"n", "e", "w", "@", "x", ".", "i", "o">>

OtherEmail == <<"b", "@", "x", ".", "i", "o">>

NewUser(e) ==
    [fullName |-> "New User", email |-> e, password |-> WrongPlain,
     role |-> "employee"]

NewUsers == {NewUser(e) : e \in {NewEmail, JaneEmail}}

NextCreateDelete ==
    \/ CreateUserCall(NewUsers \cup {NewUser(OtherEmail)})
    \/ CreateUserResume
    \/ DeleteUser({"2", Uuid(1), "no-such-id"})

SpecCreateDelete == Init /\ [][NextCreateDelete]_vars

\* the user store under create, update and delete, as time passes
NextSoftDelete ==
    \/ CreateUserCall(NewUsers)
    \/ CreateUserResume
    \/ UpdateUser({"2", Uuid(1), "no-such-id"},
                  Reactivation \cup {[email |-> NewEmail]})
    \/ DeleteUser({"2", Uuid(1), "no-such-id"})
    \/ Tick

SpecSoftDelete == Init /\ [][NextSoftDelete]_vars

EmptyBody ==
    [title |-> Undef, description |-> Undef, category |-> Undef,
     level |-> Undef, price |-> Undef, duration |-> Undef,
     isActive |-> Undef]

ValidCourse ==
    [title |-> Str(T_Intro), description |-> Str(D_first),
     category |-> Str(S_school), level |-> Str(S_beginner),
     price |-> Str(N_7x), duration |-> Str(N_30)]

ValidVideo ==
    [title |-> Str(T_Intro), description |-> Str(D_first),
     duration |-> Str(N_30)]

EmptyVideoBody == [title |-> Undef, description |-> Undef, duration |-> Undef]

\* updates of one numeric field: absent, falsy, "0", valid, negative
NumericUpdates ==
    {[EmptyBody EXCEPT !.price = v] :
        v \in {Num(0), Str(<<>>), Str(N_0), Str(N_minus5)}}
    \cup {[EmptyBody EXCEPT !.duration = v] :
        v \in {Num(0), Str(<<>>), Str(N_0), Str(N_30)}}

VideoDurationUpdates ==
    {[EmptyVideoBody EXCEPT !.duration = v] :
        v \in {Num(0), Str(<<>>), Str(N_0), Str(N_30)}}

\* courses and videos created valid, then updated in their numeric fields
NextRange ==
    \/ CreateCourse({ValidCourse}, NoFile)
    \/ UpdateCourse({Uuid(1)}, NumericUpdates, NoFile)
    \/ AddVideo({Uuid(1)}, {ValidVideo}, VideoFiles)
    \/ UpdateVideo({Uuid(1)}, {Uuid(2), Uuid(3)}, VideoDurationUpdates)

SpecRange == Init /\ [][NextRange]_vars

S_false == <<"f", "a", "l", "s", "e">>

\* updates of one field each, and of none
FieldUpdates ==
    {EmptyBody,
     [EmptyBody EXCEPT !.title = Str(T_NewTitle)],
     [EmptyBody EXCEPT !.description = Str(D_first)],
     [EmptyBody EXCEPT !.category = Str(S_school)],
     [EmptyBody EXCEPT !.level = Str(S_beginner)],
     [EmptyBody EXCEPT !.price = Str(N_10)],
     [EmptyBody EXCEPT !.duration = Str(N_30)],
     [EmptyBody EXCEPT !.isActive = Str(S_false)]}

\* partial updates of courses, with and without a thumbnail, as time passes
NextPartial ==
    \/ CreateCourse({ValidCourse}, NoFile)
    \/ UpdateCourse({Uuid(1)}, FieldUpdates, NoFile)
    \/ UpdateCourse({Uuid(1)}, {EmptyBody}, Thumbnails \ NoFile)
    \/ Tick

SpecPartial == Init /\ [][NextPartial]_vars

TitleUpdates ==
    {[EmptyBody EXCEPT !.title = Str(T_NewTitle)],
     [EmptyBody EXCEPT !.title = Str(T_padded_ab)]}

VideoBodies == {ValidVideo, [ValidVideo EXCEPT !.title = Str(T_padded_ab)]}

VideoTitleUpdates ==
    {[EmptyVideoBody EXCEPT !.title = Str(T_NewTitle)],
     [EmptyVideoBody EXCEPT !.title = Str(T_padded_ab)]}

\* requests that name stored and unknown courses, videos and users
NextNotFound ==
    \/ CreateCourse({ValidCourse}, NoFile)
    \/ UpdateCourse(SomeCourseIds, TitleUpdates, NoFile)
    \/ RemoveCourse(SomeCourseIds)
    \/ AddVideo(SomeCourseIds, VideoBodies, VideoFiles \ NoFile)
    \/ UpdateVideo(SomeCourseIds, SomeVideoIds, VideoTitleUpdates)
    \/ RemoveVideo(SomeCourseIds, SomeVideoIds)
    \/ UpdateUser({"2", "no-such-id"}, RoleUpdates)
    \/ DeleteUser({"2", "no-such-id"})

SpecNotFound == Init /\ [][NextNotFound]_vars

\* the dashboard after course, video and user operations
NextStats ==
    \/ CreateCourse({ValidCourse}, NoFile)
    \/ UpdateCourse({Uuid(1)},
                    {[EmptyBody EXCEPT !.isActive = Str(S_false)]}, NoFile)
    \/ RemoveCourse({Uuid(2)})
    \/ AddVideo({Uuid(1)}, {ValidVideo}, VideoFiles \ NoFile)
    \/ RemoveVideo({Uuid(1)}, {Uuid(2)})
    \/ CreateUserCall({NewUser(NewEmail)})
    \/ CreateUserResume
    \/ UpdateUser({"2"}, RoleUpdates)
    \/ DeleteUser({"1", "admin"})
    \/ Stats

SpecStats == Init /\ [][NextStats]_vars

----------------------------------------------------------------------------
(* Properties *)

\* a step in which operation `op` completed with a result
Step(op) == resp' # resp /\ resp'.op = op

\* the fields of a course creation input that break their rule
InvalidCourseFields(body) ==
    {f \in {"title", "description", "category", "level", "price",
            "duration"} :
        CASE f = "title" ->
                 body.title.t # "string" \/ Len(Trim(body.title.s)) < 3
          [] f = "description" ->
                 \/ body.description.t # "string"
                 \/ Len(Trim(body.description.s)) < 10
          [] f = "category" ->
                 body.category.t # "string" \/ body.category.s \notin Categories
          [] f = "level" ->
                 body.level.t # "string" \/ body.level.s \notin Levels
          [] f = "price" ->
                 parseFloat(body.price).nan \/ parseFloat(body.price).v < 0
          [] f = "duration" ->
                 parseInt(body.duration).nan \/ parseInt(body.duration).v <= 0}

\* C3: POST /courses reports exactly the fields that break their rule; if
\* there is one it answers 400 and the course store is unchanged, and if
\* there is none exactly one course is created (appended to the store).
C3_CreateReportsExactlyInvalidFields ==
    [][Step("POST /courses") =>
          LET bad == InvalidCourseFields(resp'.req.body)
          IN  /\ DOMAIN resp'.errors = bad
              /\ bad # {} => resp'.status = 400 /\ courses' = courses
              /\ bad = {} =>
                    /\ resp'.status = 201
                    /\ Len(courses') = Len(courses) + 1
                    /\ SubSeq(courses', 1, Len(courses)) = courses
                    /\ courses'[Len(courses')] = resp'.data]_vars

\* a creation rejected for two fields at once, with a course in the store
C3_Witness ==
    /\ resp.op = "POST /courses"
    /\ resp.status = 400
    /\ DOMAIN resp.errors = {"title", "price"}
    /\ resp.req.body.title = Str(T_padded_ab)
    /\ Len(courses) > 0

\* the user a login's email names in store `us`, tested as the claim says
AdminMatch(us, body) ==
    \E i \in 1..Len(us) :
        /\ us[i].email = Trim(ToLowerCase(body.email.s))
        /\ us[i].isActive
        /\ us[i].role = "admin"
        /\ Compare(body.password.s, us[i].password)

BothPresent(body) ==
    /\ body.email.t = "string" /\ body.email.s # <<>>
    /\ body.password.t = "string" /\ body.password.s # <<>>

\* C7: POST /login answers 200 only when the normalised email matches a
\* user that (when looked up) is active, is an admin and whose hash the
\* password verifies; with both fields present every other case is a 401;
\* a success response carries no password field; login never changes the
\* user store.
C7_LoginOnlyForActiveAdmin ==
    /\ [](resp.op = "POST /login" =>
            /\ resp.status \in {200, 400, 401}
            /\ resp.status = 400 <=> ~BothPresent(resp.req.body)
            /\ resp.status = 200 => AdminMatch(resp.lookup, resp.req.body)
            /\ BothPresent(resp.req.body)
                   /\ ~AdminMatch(resp.lookup, resp.req.body)
                   => resp.status = 401
            /\ resp.status = 200 =>
                   /\ "password" \notin DOMAIN resp.data
                   /\ resp.data.role = "admin")
    /\ [][Step("POST /login") \/ Len(logins') # Len(logins) =>
              users' = users]_vars

\* a success for the padded, capitalised address, and a user soft-deleted
C7_Witness ==
    /\ resp.op = "POST /login"
    /\ resp.status = 200
    /\ resp.req.body.email = Str(AdminEmailRaw)
    /\ \E i \in 1..Len(users) : ~users[i].isActive

\* C10 as stated: a login success response describes a user that is an
\* active admin of the store when the response is sent.
C10_SuccessIsActiveAdminWhenSent ==
    resp.op = "POST /login" /\ resp.status = 200 =>
        \E i \in 1..Len(users) :
            /\ users[i].id = resp.data.id
            /\ users[i].isActive
            /\ users[i].role = "admin"

\* C10, amended: other requests run while a login is suspended at its
\* password compare, so a login success response describes the user the
\* lookup found, who was an active admin of the store when looked up; the
\* response shows that user as looked up, but for isActive and updatedAt,
\* which a soft delete may have written since.
C10_SuccessWasActiveAdminAtLookup ==
    resp.op = "POST /login" /\ resp.status = 200 =>
        \E i \in 1..Len(resp.lookup) :
            /\ resp.lookup[i].id = resp.data.id
            /\ resp.lookup[i].isActive
            /\ resp.lookup[i].role = "admin"
            /\ \A f \in DOMAIN resp.data \ {"isActive", "updatedAt"} :
                   resp.data[f] = resp.lookup[i][f]

\* a success sent after the store changed under the suspended login
C10_Witness ==
    /\ resp.op = "POST /login"
    /\ resp.status = 200
    /\ resp.lookup # users
    /\ ~resp.data.isActive

\* C1 as stated: no two stored user records, active or inactive, have the
\* same email, whatever the interleaving of creates and deletes.
C1_EmailUnique ==
    \A i, j \in 1..Len(users) : users[i].email = users[j].email => i = j

\* C9: the number of stored user records never decreases; delete(id) on a
\* stored user sets isActive to false and updatedAt to the current time,
\* changes nothing else and returns the record; a create is accepted only
\* if no stored record, active or not, has its email, and a rejected create
\* changes nothing.
C9_UsersOnlySoftDeleted ==
    [][/\ Len(users') >= Len(users)
       /\ Step("UserModel.delete") /\ UserIndex(users, resp'.req.id) # 0 =>
             LET i == UserIndex(users, resp'.req.id)
             IN  /\ users' = [users EXCEPT ![i].isActive = FALSE,
                                            ![i].updatedAt = now]
                 /\ resp'.data = users'[i]
       /\ Len(pending') > Len(pending) =>
             \A i \in 1..Len(users) :
                 users[i].email # pending'[Len(pending')].email
       /\ Step("UserModel.create") /\ resp'.errors # NoErrors =>
             /\ users' = users
             /\ pending' = pending
             /\ \E i \in 1..Len(users) : users[i].email = resp'.req.email
      ]_vars

\* a create rejected for the email of a soft-deleted record
C9_Witness ==
    /\ resp.op = "UserModel.create"
    /\ resp.errors # NoErrors
    /\ \E i \in 1..Len(users) :
           users[i].email = resp.req.email /\ ~users[i].isActive

\* C2 as stated: every stored course has price >= 0, duration > 0, its
\* category and level in their enums, and every stored video duration > 0.
C2_StoredRanges ==
    \A i \in 1..Len(courses) :
        /\ courses[i].price >= 0
        /\ courses[i].duration > 0
        /\ courses[i].category \in Categories
        /\ courses[i].level \in Levels
        /\ \A j \in 1..Len(courses[i].videos) :
               courses[i].videos[j].duration > 0

\* a request field that is present and falsy: 0 or the empty string
ExplicitFalsy(v) == v # Undef /\ ~Truthy(v)

\* the target of a video request in store `cs`: <<course index, video
\* index>>, either 0 when it does not resolve
VideoTarget(cs, req) ==
    LET i == CourseIndex(cs, req.courseId)
    IN  <<i, IF i = 0 THEN 0 ELSE VideoIndex(cs[i].videos, req.videoId)>>

BodyFields ==
    {"title", "description", "category", "level", "price", "duration",
     "isActive"}

\* the course fields a PUT /courses/:id request does not carry
AbsentFields(req) ==
    {f \in BodyFields : req.body[f] = Undef}
    \cup (IF req.file = Null THEN {"thumbnail"} ELSE {})
    \cup {"id", "videos", "createdAt"}

\* C5: a successful PUT /courses/:id leaves every field absent from the
\* request as it was, sets updatedAt to the current time, and changes no
\* other course; a request carrying only a valid title changes only title
\* (to the trimmed title) and updatedAt.
C5_PartialUpdateFrame ==
    [][Step("PUT /courses/:id") /\ resp'.status = 200 =>
          LET req == resp'.req
              i == CourseIndex(courses, req.id)
          IN  /\ i # 0
              /\ Len(courses') = Len(courses)
              /\ \A j \in 1..Len(courses) : j # i => courses'[j] = courses[j]
              /\ \A f \in AbsentFields(req) : courses'[i][f] = courses[i][f]
              /\ courses'[i].updatedAt = now
              /\ resp'.data = courses'[i]
              /\ (AbsentFields(req) =
                      (BodyFields \ {"title"})
                          \cup {"thumbnail", "id", "videos", "createdAt"}
                  /\ Truthy(req.body.title))
                 => courses'[i] =
                        [courses[i] EXCEPT !.title = Trim(req.body.title.s),
                                           !.updatedAt = now]]_vars

\* a title-only update, later than the creation, of a course that had a
\* thumbnail and another price, beside a second course
C5_Witness ==
    /\ resp.op = "PUT /courses/:id"
    /\ resp.status = 200
    /\ resp.req.body = [EmptyBody EXCEPT !.title = Str(T_NewTitle)]
    /\ resp.data.thumbnail # NullPath
    /\ resp.data.price = 10
    /\ resp.data.updatedAt > resp.data.createdAt
    /\ Len(courses) >= 2

CourseOps ==
    {"PUT /courses/:id", "DELETE /courses/:id",
     "POST /courses/:courseId/videos",
     "PUT /courses/:courseId/videos/:videoId",
     "DELETE /courses/:courseId/videos/:videoId"}

\* whether the course (and video) a request names is in store `cs`
Resolves(cs, op, req) ==
    CASE op \in {"PUT /courses/:id", "DELETE /courses/:id"} ->
             CourseIndex(cs, req.id) # 0
      [] op = "POST /courses/:courseId/videos" ->
             CourseIndex(cs, req.courseId) # 0
      [] OTHER -> VideoTarget(cs, req)[2] # 0

UserOpsById == {"UserModel.update", "UserModel.delete"}

\* C6 as stated: a course or video request whose target does not resolve
\* answers 404 and leaves the course store as it was; UserModel.update and
\* UserModel.delete on an unknown id return null and leave the user store
\* as it was.
C6_NotFoundIs404 ==
    [][/\ \A op \in CourseOps :
              Step(op) /\ ~Resolves(courses, op, resp'.req) =>
                  resp'.status = 404 /\ courses' = courses
       /\ \A op \in UserOpsById :
              Step(op) /\ UserIndex(users, resp'.req.id) = 0 =>
                  resp'.data = Null /\ users' = users]_vars

\* C6, amended: validation runs before the lookup, so such a request
\* answers 400 when its body fails validation and 404 otherwise; either way
\* the course store is as it was.  The user store part stands.
C6_NotFoundLeavesStore ==
    [][/\ \A op \in CourseOps :
              Step(op) /\ ~Resolves(courses, op, resp'.req) =>
                  /\ resp'.status = IF resp'.errors # NoErrors THEN 400
                                    ELSE 404
                  /\ courses' = courses
       /\ \A op \in UserOpsById :
              Step(op) /\ UserIndex(users, resp'.req.id) = 0 =>
                  resp'.data = Null /\ users' = users]_vars

\* a video delete that names a stored course and an unknown video
C6_Witness ==
    /\ resp.op = "DELETE /courses/:courseId/videos/:videoId"
    /\ resp.status = 404
    /\ \E i \in 1..Len(courses) :
           courses[i].id = resp.req.courseId /\ Len(courses[i].videos) > 0

\* the counts of the dashboard that do not depend on who counts as a user
CourseCountsRight ==
    /\ resp.data.totalCourses = Len(courses)
    /\ resp.data.activeCourses =
           Cardinality({i \in 1..Len(courses) : courses[i].isActive})
    /\ resp.data.totalVideos =
           Cardinality({ij \in (1..Len(courses)) \X (1..MaxUuid) :
                           ij[2] <= Len(courses[ij[1]].videos)})

StatsReadOnly ==
    Step("GET /stats") => users' = users /\ courses' = courses

\* C8 as stated: GET /stats reports the course and video counts and
\* totalUsers as the number of non-admin users of the store, and changes
\* neither store.
C8_StatsCountStoredUsers ==
    /\ [](resp.op = "GET /stats" =>
            /\ CourseCountsRight
            /\ resp.data.totalUsers =
                   Cardinality({i \in 1..Len(users) :
                                   users[i].role # "admin"}))
    /\ [][StatsReadOnly]_vars

\* C8, amended: GET /stats reports totalCourses as the number of stored
\* courses, activeCourses as the number with isActive true, totalVideos as
\* the sum of the video-list lengths, and totalUsers as the number of
\* ACTIVE non-admin users (soft-deleted users are not counted); serving the
\* request changes neither store.
C8_StatsCountActiveUsers ==
    /\ [](resp.op = "GET /stats" =>
            /\ CourseCountsRight
            /\ resp.data.totalUsers =
                   Cardinality({i \in 1..Len(users) :
                                   users[i].isActive
                                       /\ users[i].role # "admin"}))
    /\ [][StatsReadOnly]_vars

\* two active courses and an inactive one, and a soft-deleted student
C8_Witness ==
    /\ resp.op = "GET /stats"
    /\ resp.data.totalCourses = 3
    /\ resp.data.activeCourses = 2
    /\ resp.data.totalUsers = 1
    /\ \E i \in 1..Len(users) : ~users[i].isActive /\ users[i].role # "admin"

=============================================================================
